---- MODULE Spec2Model ----
(***************************************************************************)
(* Model of invoice_sender: send_invoices.process_invoices and the         *)
(* functions it calls (extract_five_digit_accounts, split_emails,          *)
(* find_invoice_path, get_cell_value, send_email_with_attachment).         *)
(*                                                                         *)
(* A Python str is a sequence of one-character strings.  A spreadsheet     *)
(* cell is a record [t, s]: t is the Python type of the value pandas       *)
(* delivers ("str", "num" for int/float, "nan" for an empty cell, "none"   *)
(* for Python None) and s is what str(value) returns.                      *)
(***************************************************************************)
EXTENDS Integers, Sequences, FiniteSets, TLC

(* ------------------------------ bounds -------------------------------- *)
MaxRows == 2          \* rows of the spreadsheet
MaxRetriesBound == 3  \* largest max_retries value tried
MaxDirSize == 3       \* entries of a directory given to find_invoice_path alone
MaxLookups == 2       \* calls of find_invoice_path over one directory
MaxCellLen == 7       \* characters of a cell given to extract_five_digit_accounts alone
MaxPieces == 3        \* pieces a template given to the rendering alone is made of

(* ------------------------- characters, strings ------------------------ *)
\* The characters used, in code-point order (the order sorted() uses).
Alphabet ==
    << " ", "%", ",", ".", "0", "1", "2", "3", "4", "5", "6", "7", "8", "9",
       ";", "@", "A", "C", "D", "F", "M", "N", "O", "P", "T", "U", "Y", "_",
       "a", "b", "c", "d", "e", "f", "j", "m", "n", "o", "p", "t", "u", "x",
       "y" >>

CharCode(c) == CHOOSE i \in 1..Len(Alphabet) : Alphabet[i] = c

Digits == {"0", "1", "2", "3", "4", "5", "6", "7", "8", "9"}
UpperCase == {"A", "C", "D", "F", "M", "N", "O", "P", "T", "U", "Y"}
LowerCase ==
    {"a", "b", "c", "d", "e", "f", "j", "m", "n", "o", "p", "t", "u", "x", "y"}

\* \d of the re module
IsDigit(c) == c \in Digits
\* \w of the re module: letters, digits and the underscore
IsWordChar(c) == c \in Digits \cup UpperCase \cup LowerCase \cup {"_"}
\* \s of the re module, and what str.strip() removes
IsSpace(c) == c = " "

\* str.lower() of one character
LowerChar(c) ==
    CASE c = "A" -> "a" [] c = "D" -> "d" [] c = "F" -> "f" [] c = "N" -> "n"
      [] c = "P" -> "p" [] c = "T" -> "t" [] c = "Y" -> "y"
      [] c = "C" -> "c" [] c = "M" -> "m" [] c = "O" -> "o" [] c = "U" -> "u"
      [] OTHER -> c

Lower(s) == [i \in 1..Len(s) |-> LowerChar(s[i])]

\* s[i:j] of Python with 1-based inclusive bounds
Slice(s, i, j) == IF j < i THEN << >> ELSE SubSeq(s, i, j)

StartsWith(s, p) == Len(p) <= Len(s) /\ SubSeq(s, 1, Len(p)) = p
EndsWith(s, p) == Len(p) <= Len(s) /\ SubSeq(s, Len(s) - Len(p) + 1, Len(s)) = p

\* str.strip()
Strip(s) ==
    LET keep == {i \in 1..Len(s) : ~IsSpace(s[i])}
    IN  IF keep = {} THEN << >>
        ELSE LET lo == CHOOSE i \in keep : \A j \in keep : i <= j
                 hi == CHOOSE i \in keep : \A j \in keep : j <= i
             IN  SubSeq(s, lo, hi)

\* str < str of Python: lexicographic by code point
RECURSIVE StrLess(_, _)
StrLess(a, b) ==
    IF a = << >> THEN b # << >>
    ELSE IF b = << >> THEN FALSE
    ELSE IF a[1] = b[1] THEN StrLess(Tail(a), Tail(b))
    ELSE CharCode(a[1]) < CharCode(b[1])

\* sorted(names) of a collection of distinct names
RECURSIVE Sorted(_)
Sorted(S) ==
    IF S = {} THEN << >>
    ELSE LET m == CHOOSE x \in S : \A y \in S \ {x} : StrLess(x, y)
         IN  <<m>> \o Sorted(S \ {m})

\* str.replace(old, new): every non-overlapping occurrence, left to right
ReplaceFirstOnly(s, old, new) ==
    LET at == {i \in 1..(Len(s) - Len(old) + 1) : SubSeq(s, i, i + Len(old) - 1) = old}
    IN  IF at = {} THEN s
        ELSE LET i == CHOOSE k \in at : \A j \in at : k <= j
             IN  SubSeq(s, 1, i - 1) \o new \o SubSeq(s, i + Len(old), Len(s))

RECURSIVE Replace(_, _, _)
Replace(s, old, new) ==
    IF Len(s) < Len(old) THEN s
    ELSE IF SubSeq(s, 1, Len(old)) = old
         THEN new \o Replace(SubSeq(s, Len(old) + 1, Len(s)), old, new)
         ELSE <<s[1]>> \o Replace(Tail(s), old, new)

(* ------------------------------- cells -------------------------------- *)
None == [t |-> "none", s |-> << >>]
NaN == [t |-> "nan", s |-> <<"n", "a", "n">>]
Str(chars) == [t |-> "str", s |-> chars]
Num(chars) == [t |-> "num", s |-> chars]

\* bool(value): None and "" are false; nan and every non-zero number are true
Truthy(v) ==
    CASE v.t = "none" -> FALSE
      [] v.t = "nan" -> TRUE
      [] v.t = "str" -> v.s # << >>
      [] OTHER -> v.s # <<"0">>

(* ------------------------ extract_five_digit_accounts ----------------- *)
\* start positions of the matches of \b(\d{5})\b
WordBoundaryMatchesOpenStart(s) ==
    {i \in 1..(Len(s) - 4) :
        /\ \A k \in i..(i + 4) : IsDigit(s[k])
        /\ (i + 5 > Len(s) \/ ~IsWordChar(s[i + 5]))}

WordBoundaryMatches(s) ==
    {i \in 1..(Len(s) - 4) :
        /\ \A k \in i..(i + 4) : IsDigit(s[k])
        /\ (i = 1 \/ ~IsWordChar(s[i - 1]))
        /\ (i + 5 > Len(s) \/ ~IsWordChar(s[i + 5]))}

\* re.sub(r"\D", "", s)
DigitsOnly(s) == SelectSeq(s, IsDigit)

\* the fallback loop: 5-digit chunks from the left, a short tail dropped
Chunks(d) ==
    [k \in 1..(Len(d) \div 5) |-> SubSeq(d, 5 * (k - 1) + 1, 5 * k)]

RECURSIVE SeqOfSet(_)
SeqOfSet(S) ==
    IF S = {} THEN << >>
    ELSE LET m == CHOOSE x \in S : \A y \in S : x <= y
         IN  <<m>> \o SeqOfSet(S \ {m})

extract_five_digit_accounts(value) ==
    IF value.t = "none" THEN << >>
    ELSE LET s == Strip(value.s)
             starts == SeqOfSet(WordBoundaryMatches(s))
         IN  IF s = << >> THEN << >>
             ELSE IF starts # << >>
                  THEN [k \in 1..Len(starts) |-> SubSeq(s, starts[k], starts[k] + 4)]
                  ELSE Chunks(DigitsOnly(s))

(* ------------------------------ split_emails -------------------------- *)
IsSeparator(c) == c = ";" \/ c = "," \/ IsSpace(c)

\* re.split(r"[;,\s]+", s) without the empty parts (the filter drops them)
RECURSIVE Tokens(_)
Tokens(s) ==
    IF s = << >> THEN << >>
    ELSE IF IsSeparator(s[1]) THEN Tokens(Tail(s))
    ELSE LET seps == {i \in 1..Len(s) : IsSeparator(s[i])}
             stop == IF seps = {} THEN Len(s) + 1
                     ELSE CHOOSE i \in seps : \A j \in seps : i <= j
         IN  <<SubSeq(s, 1, stop - 1)>> \o Tokens(Slice(s, stop, Len(s)))

HasAt(p) == \E i \in 1..Len(p) : p[i] = "@"

split_emails(raw) ==
    IF raw.t = "none" THEN << >>
    ELSE LET s == Strip(raw.s)
         IN  IF s = << >> THEN << >> ELSE SelectSeq(Tokens(s), HasAt)

(* ---------------------------- find_invoice_path ----------------------- *)
\* The invoices directory is a set of entries [name, isfile]; dirStatus is
\* what os.listdir meets: "ok", "missing" (FileNotFoundError), "unreadable"
\* (PermissionError) or "notdir" (NotADirectoryError).
NoPath == << >>

\* except FileNotFoundError: the one listing error the function catches
ListingErrorCaught(status) == status = "missing"

NameMatches(name, prefix, ext) ==
    /\ EndsWith(Lower(name), Lower(ext))
    /\ StartsWith(name, prefix)

\* os.listdir: the names of the entries, in an order the system chooses
ListingOrders(entries) ==
    LET names == {e.name : e \in entries}
    IN  {l \in [1..Cardinality(names) -> names] :
            \A i, j \in DOMAIN l : i # j => l[i] # l[j]}

\* line 87: sorted(os.listdir(invoices_dir))
UnsortedNames(listing) == listing
SortedNames(listing) == Sorted({listing[i] : i \in DOMAIN listing})

\* the for loop over the sorted entries: the first matching regular file
FirstMatch(listing, entries, prefix, ext) ==
    LET names == SortedNames(listing)
        isfile(n) == \E e \in entries : e.name = n /\ e.isfile
        hits == {i \in 1..Len(names) : NameMatches(names[i], prefix, ext) /\ isfile(names[i])}
    IN  IF hits = {} THEN NoPath
        ELSE names[CHOOSE i \in hits : \A j \in hits : i <= j]

\* [raised |-> the exception that leaves the function or "", path |-> result]
find_invoice_path(account_number, listing, entries, status, ext) ==
    LET prefix == account_number \o <<"_">>
    IN  IF status = "ok"
        THEN [raised |-> "", path |-> FirstMatch(listing, entries, prefix, ext)]
        ELSE IF ListingErrorCaught(status)
        THEN [raised |-> "", path |-> NoPath]
        ELSE [raised |-> IF status = "unreadable" THEN "PermissionError"
                         ELSE "NotADirectoryError",
              path |-> NoPath]

(* ------------------------------ get_cell_value ------------------------ *)
\* row.iloc[index_fallback] with the IndexError turned into None; the header
\* names are not passed by the callers modelled here.
get_cell_value(row, index_fallback) ==
    IF index_fallback + 1 \in DOMAIN row THEN row[index_fallback + 1] ELSE None

(* --------------------------- template rendering ----------------------- *)
ACCOUNT == <<"%", "A", "C", "C", "O", "U", "N", "T", "%">>
COMPANY == <<"%", "C", "O", "M", "P", "A", "N", "Y", "%">>

\* company or ""
CompanyOrEmpty(company) == IF Truthy(company) THEN company ELSE Str(<< >>)

\* template.replace("%ACCOUNT%", account).replace("%COMPANY%", company or "")
\* str.replace raises TypeError when its argument is not a str, whether or
\* not the placeholder occurs.
Personalize(template, account, company) ==
    LET c == CompanyOrEmpty(company)
    IN  IF c.t # "str" THEN [raised |-> "TypeError", text |-> << >>]
        ELSE [raised |-> "",
              text |-> Replace(Replace(template, ACCOUNT, account), COMPANY, c.s)]

(* ------------------------------ the inputs ---------------------------- *)
A12345 == <<"1", "2", "3", "4", "5">>
A67890 == <<"6", "7", "8", "9", "0">>

\* a sheet of three columns: company, account, emails
RowChoices ==
    { <<Str(<<"A">>), Str(A12345), Str(<<"a", "@", "x">>)>>,
      <<NaN, Str(A12345 \o <<",">> \o A67890), Str(<<"a", "@", "x", ";", "b", "@", "y">>)>>,
      <<Str(<<"A">>), NaN, Str(<<"a", "@", "x">>)>>,
      <<Str(<<"A">>), Num(A12345), NaN>>,
      <<NaN, Str(<<"1", "2", "3">>), Str(<<"n", "o">>)>> }

RECURSIVE SeqsUpTo(_, _)
SeqsUpTo(S, n) ==
    IF n = 0 THEN {<< >>}
    ELSE LET shorter == SeqsUpTo(S, n - 1)
         IN  shorter \cup {Append(q, x) : q \in {t \in shorter : Len(t) = n - 1}, x \in S}

File(name) == [name |-> name, isfile |-> TRUE]
Folder(name) == [name |-> name, isfile |-> FALSE]

DirChoices ==
    { { File(A12345 \o <<"_", "j", "a", "n", ".", "P", "D", "F">>),
        File(A12345 \o <<"_", "f", "e", "b", ".", "p", "d", "f">>),
        File(A67890 \o <<"_", "x", ".", "t", "x", "t">>) },
      { Folder(A67890 \o <<"_", "a", ".", "p", "d", "f">>),
        File(A67890 \o <<"_", "b", ".", "p", "d", "f">>) } }

DirStatuses == {"ok", "missing", "unreadable", "notdir"}

\* max_retries is an int parameter: no check in the code keeps it positive
MaxRetriesChoices == (-1)..MaxRetriesBound
DelayChoices == {3}
\* subject and body templates
TemplateChoices ==
    { << <<"N", "o", " ">> \o ACCOUNT, COMPANY \o <<" ">> \o ACCOUNT >> }

\* the column positions handed to process_invoices (zero-based)
account_column_index == 1
emails_column_index == 2
\* 0 is the company column; 3 is past the last column of the sheet
CompanyIndexChoices == {0, 3}
ext == <<".", "p", "d", "f">>

(* ------------------------------- the state ---------------------------- *)
VARIABLES
    rows, entries, dirStatus, excel_exists,   \* the files
    dry_run, max_retries, delay_between_emails,           \* the parameters
    subject, body, company_column_index,
    pc, error, result,                                    \* process_invoices
    idx, processed, sent, skipped, missing_file,
    accounts, recipients, company, ai, row_sent, invoice_path,
    message, attempt, wait_time, sessionOpen,             \* send_email_with_attachment
    events, callResult, touched,                          \* history
    sinceAttempt, gap,                      \* sleeps between connection attempts
    probe                                   \* a function applied on its own

files == <<rows, entries, excel_exists>>
params == <<dry_run, max_retries, delay_between_emails, subject, body, company_column_index>>
counters == <<processed, sent, skipped, missing_file>>
rowvars == <<accounts, recipients, company>>
sendvars == <<message, attempt, wait_time, sessionOpen>>
program == <<files, dirStatus, params, pc, error, result, idx, counters,
             rowvars, ai, row_sent, invoice_path, sendvars, events, callResult, touched,
             sinceAttempt, gap>>
vars == <<program, probe>>

\* sinceAttempt: what has followed the last connection attempt of the run
\*   "none" no attempt yet, "nothing", "raised" its error left the call,
\*   "short" a sleep shorter than delay_between_emails, "slept" a sleep of
\*   at least delay_between_emails
\* gap: sinceAttempt as it was when the attempt of the call under way connected
\* touched: what was called for the row being iterated
Touch(what) == touched \cup {what}

Init ==
    /\ rows \in SeqsUpTo(RowChoices, MaxRows)
    /\ entries \in DirChoices
    /\ dirStatus \in DirStatuses
    /\ excel_exists \in BOOLEAN
    /\ dry_run \in BOOLEAN
    /\ max_retries \in MaxRetriesChoices
    /\ delay_between_emails \in DelayChoices
    /\ \E t \in TemplateChoices : subject = t[1] /\ body = t[2]
    /\ company_column_index \in CompanyIndexChoices
    /\ pc = "start" /\ error = "" /\ result = << >>
    /\ idx = 0 /\ processed = 0 /\ sent = 0 /\ skipped = 0 /\ missing_file = 0
    /\ accounts = << >> /\ recipients = << >> /\ company = None
    /\ ai = 0 /\ row_sent = 0 /\ invoice_path = NoPath
    /\ message = << >> /\ attempt = 0 /\ wait_time = 0 /\ sessionOpen = FALSE
    /\ events = << >> /\ callResult = "" /\ touched = {}
    /\ sinceAttempt = "none" /\ gap = "none"
    /\ probe = << >>

(* --------------------------- process_invoices ------------------------- *)
\* os.path.isdir: a directory that cannot be listed is still a directory
IsDirOrExists(status) == status # "missing"
IsDir(status) == status \in {"ok", "unreadable"}

\* lines 238-244: the configuration checks, then the counters start at 0
Start ==
    /\ pc = "start"
    /\ IF ~excel_exists \/ ~IsDir(dirStatus)
       THEN /\ pc' = "raised"
            /\ error' = "FileNotFoundError"
            /\ idx' = idx
       ELSE /\ pc' = "rows"
            /\ error' = error
            /\ idx' = 1
    /\ UNCHANGED <<probe, sinceAttempt, gap, files, dirStatus, params, result, counters, rowvars,
                   ai, row_sent, invoice_path, sendvars, events, callResult, touched>>

\* if not accounts / if not recipients: the row is skipped
RowSkippedAccountsOnly(accts, rcpts) == accts = << >>
RowSkipped(accts, rcpts) == accts = << >> \/ rcpts = << >>

\* line 247: processed += 1, first statement of the loop body
CountRowUnlessSkipped(n, accts, rcpts) == IF RowSkipped(accts, rcpts) THEN n ELSE n + 1
CountRow(n, accts, rcpts) == n + 1

\* lines 246-265: one iteration of the row loop up to the identifier loop
RowStart ==
    /\ pc = "rows" /\ idx <= Len(rows)
    /\ LET row == rows[idx]
           accts == extract_five_digit_accounts(get_cell_value(row, account_column_index))
           rcpts == split_emails(get_cell_value(row, emails_column_index))
       IN  /\ processed' = CountRow(processed, accts, rcpts)
           /\ company' = get_cell_value(row, company_column_index)
           /\ accounts' = accts
           /\ recipients' = rcpts
           /\ touched' = {}
           /\ IF RowSkipped(accts, rcpts)
              THEN /\ skipped' = skipped + 1
                   /\ idx' = idx + 1
                   /\ pc' = "rows"
                   /\ UNCHANGED <<ai, row_sent>>
              ELSE /\ row_sent' = 0
                   /\ ai' = 1
                   /\ pc' = "accts"
                   /\ UNCHANGED <<skipped, idx>>
    /\ UNCHANGED <<probe, sinceAttempt, gap, files, dirStatus, params, error, result, sent, missing_file,
                   invoice_path, sendvars, events, callResult>>

\* lines 311-316: the rows are exhausted and the summary is returned
Return ==
    /\ pc = "rows" /\ idx > Len(rows)
    /\ pc' = "done"
    /\ result' = [processed |-> processed, sent |-> sent, skipped |-> skipped,
                  missing_file |-> missing_file]
    /\ UNCHANGED <<probe, sinceAttempt, gap, files, dirStatus, params, error, idx, counters, rowvars,
                   ai, row_sent, invoice_path, sendvars, events, callResult, touched>>

\* lines 266-271: the file of the next identifier is looked up
FindInvoice ==
    /\ pc = "accts" /\ ai <= Len(accounts)
    /\ \E listing \in ListingOrders(entries) :
       LET found == find_invoice_path(accounts[ai], listing, entries, dirStatus, ext)
       IN  /\ touched' = Touch("match")
           /\ events' = << >> /\ callResult' = ""
           /\ IF found.raised # ""
              THEN /\ pc' = "raised" /\ error' = found.raised
                   /\ UNCHANGED <<missing_file, ai, invoice_path>>
              ELSE IF found.path = NoPath
              THEN /\ missing_file' = missing_file + 1
                   /\ ai' = ai + 1
                   /\ UNCHANGED <<pc, error, invoice_path>>
              ELSE /\ invoice_path' = found.path
                   /\ pc' = "found"
                   /\ UNCHANGED <<error, missing_file, ai>>
    /\ gap' = "none"
    /\ UNCHANGED <<probe, sinceAttempt, files, dirStatus, params, result, idx, processed, sent,
                   skipped, rowvars, row_sent, sendvars>>

\* line 309: the identifiers of the row are exhausted
RowEnd ==
    /\ pc = "accts" /\ ai > Len(accounts)
    /\ sent' = sent + row_sent
    /\ idx' = idx + 1
    /\ pc' = "rows"
    /\ events' = << >> /\ callResult' = ""
    /\ gap' = "none"
    /\ UNCHANGED <<probe, sinceAttempt, files, dirStatus, params, error, result, processed, skipped,
                   missing_file, rowvars, ai, row_sent, invoice_path, sendvars, touched>>

\* subject and body personalised, the subject first
Rendered ==
    LET subj == Personalize(subject, accounts[ai], company)
        bod == Personalize(body, accounts[ai], company)
    IN  IF subj.raised # "" THEN [raised |-> subj.raised, subject |-> << >>, body |-> << >>]
        ELSE [raised |-> bod.raised, subject |-> subj.text, body |-> bod.text]

\* line 274: if dry_run
DryRunBranchInverted(flag) == ~flag
DryRunBranch(flag) == flag

\* lines 274-282: the dry-run branch, outside the try statement
DryRunLog ==
    /\ pc = "found" /\ DryRunBranch(dry_run)
    /\ touched' = Touch("render")
    /\ IF Rendered.raised # ""
       THEN /\ pc' = "raised" /\ error' = Rendered.raised
            /\ ai' = ai
       ELSE /\ pc' = "accts" /\ error' = error
            /\ ai' = ai + 1
    /\ UNCHANGED <<probe, sinceAttempt, gap, files, dirStatus, params, result, idx, counters, rowvars,
                   row_sent, invoice_path, sendvars, events, callResult>>

\* lines 284-287 and 305-307: the live branch renders inside the try statement
Render ==
    /\ pc = "found" /\ ~DryRunBranch(dry_run)
    /\ touched' = Touch("render")
    /\ IF Rendered.raised # ""
       THEN /\ skipped' = skipped + 1
            /\ ai' = ai + 1
            /\ pc' = "accts"
            /\ UNCHANGED message
       ELSE /\ message' = [subject |-> Rendered.subject, body |-> Rendered.body,
                           to |-> recipients, attachment |-> invoice_path]
            /\ pc' = "call"
            /\ UNCHANGED <<skipped, ai>>
    /\ UNCHANGED <<probe, sinceAttempt, gap, files, dirStatus, params, error, result, idx, processed, sent,
                   missing_file, rowvars, row_sent, invoice_path, attempt, wait_time,
                   sessionOpen, events, callResult>>

(* ---------------------- send_email_with_attachment -------------------- *)
\* what one step of an attempt can meet: success or an exception
ConnectOutcomes == {"ok", "OSError"}
TransmitOutcomes == {"ok", "SMTPException", "UnicodeEncodeError"}

\* line 184: except (smtplib.SMTPException, ConnectionError, OSError)
IsTransientOrAny(exc) == exc # "ok"
IsTransient(exc) == exc \in {"SMTPException", "ConnectionError", "OSError"}

\* line 185: if attempt < max_retries - 1
ShouldRetryOffByOne(n, retries) == n < retries
ShouldRetry(n, retries) == n < retries - 1

RECURSIVE Pow2(_)
Pow2(n) == IF n <= 0 THEN 1 ELSE 2 * Pow2(n - 1)

\* line 186: wait_time = (2 ** attempt) * delay_between_emails
BackoffTimeNextExponent(n, delay) == Pow2(n + 1) * delay
BackoffTimeLinear(n, delay) == n * delay
BackoffTime(n, delay) == Pow2(n) * delay

\* line 181: time.sleep(delay_between_emails)
PacingTimeDoubled(delay) == 2 * delay
PacingTime(delay) == delay

\* line 163: for attempt in range(max_retries)
InRange(n, retries) == n < retries

Event(kind, outcome, duration) ==
    [k |-> kind, n |-> attempt, out |-> outcome, dur |-> duration]

\* lines 303-304: the call returned, the identifier is counted in row_sent
Returned ==
    /\ callResult' = "returned"
    /\ row_sent' = row_sent + 1
    /\ ai' = ai + 1
    /\ pc' = "accts"
    /\ UNCHANGED skipped

\* lines 305-307: the call raised, the identifier is counted as skipped
CaughtUncounted(exc) ==
    /\ callResult' = exc
    /\ ai' = ai + 1
    /\ pc' = "accts"
    /\ UNCHANGED <<skipped, row_sent>>

Caught(exc) ==
    /\ callResult' = exc
    /\ skipped' = skipped + 1
    /\ ai' = ai + 1
    /\ pc' = "accts"
    /\ UNCHANGED row_sent

\* lines 181, 188: time.sleep(duration), measured against the pacing delay
Slept(duration) == IF duration >= delay_between_emails THEN "slept" ELSE "short"

\* the locals of the call end with it
FrameGone == attempt' = 0 /\ wait_time' = 0

\* lines 151-160: the message is built and the attachment read
BuildMessage ==
    /\ pc = "call"
    /\ touched' = Touch("send")
    /\ events' = << >>
    /\ attempt' = 0 /\ wait_time' = 0
    /\ \E readable \in BOOLEAN :
          IF readable
          THEN /\ pc' = "loop" /\ callResult' = ""
               /\ UNCHANGED <<skipped, ai, row_sent>>
          ELSE Caught("OSError")
    /\ UNCHANGED <<probe, sinceAttempt, gap, files, dirStatus, params, error, result, idx, processed, sent,
                   missing_file, rowvars, invoice_path, message, sessionOpen>>

\* line 163 with the range exhausted: the function returns None
LoopExit ==
    /\ pc = "loop" /\ ~InRange(attempt, max_retries)
    /\ Returned /\ FrameGone
    /\ UNCHANGED <<probe, sinceAttempt, gap, files, dirStatus, params, error, result, idx, processed, sent,
                   missing_file, rowvars, invoice_path, message, sessionOpen, events,
                   touched>>

\* lines 184-190: the handler of the transient errors; any other exception
\* leaves the function at once
Raised(exc) ==
    IF IsTransient(exc) /\ ShouldRetry(attempt, max_retries)
    THEN /\ pc' = "backoff"
         /\ wait_time' = BackoffTime(attempt, delay_between_emails)
         /\ sinceAttempt' = "nothing"
         /\ UNCHANGED <<attempt, callResult, skipped, ai, row_sent>>
    ELSE /\ Caught(exc) /\ FrameGone
         /\ sinceAttempt' = "raised"

\* lines 167/175: smtplib.SMTP(host, port) connects
Connect ==
    /\ pc = "loop" /\ InRange(attempt, max_retries)
    /\ touched' = Touch("connect")
    /\ \E out \in ConnectOutcomes :
          IF out = "ok"
          THEN /\ sessionOpen' = TRUE
               /\ pc' = "session"
               /\ sinceAttempt' = "nothing"
               /\ UNCHANGED <<events, attempt, wait_time, callResult, skipped, ai, row_sent>>
          ELSE /\ events' = Append(events, Event("attempt", out, 0))
               /\ Raised(out)
               /\ UNCHANGED sessionOpen
    /\ gap' = sinceAttempt
    /\ UNCHANGED <<probe, files, dirStatus, params, error, result, idx, processed, sent,
                   missing_file, rowvars, invoice_path, message>>

\* lines 167/175: the with statement; whether the session is still open once
\* the block has been left with the given outcome
OpenAfterBlockUnlessQuit(out) == out # "ok"
OpenAfterBlock(out) == FALSE

\* lines 168-178: handshake, login and sendmail; leaving the with block
\* closes the session whatever happened
Transmit ==
    /\ pc = "session"
    /\ \E out \in TransmitOutcomes :
          /\ sessionOpen' = OpenAfterBlock(out)
          /\ events' = Append(events, Event("attempt", out, 0))
          /\ IF out = "ok"
             THEN /\ pc' = "pacing"
                  /\ sinceAttempt' = "nothing"
                  /\ UNCHANGED <<attempt, wait_time, callResult, skipped, ai, row_sent>>
             ELSE Raised(out)
    /\ UNCHANGED <<probe, gap, files, dirStatus, params, error, result, idx, processed, sent,
                   missing_file, rowvars, invoice_path, message, touched>>

\* lines 181-182: the pacing sleep, then return
PacingSleep ==
    /\ pc = "pacing"
    /\ events' = Append(events, Event("pacing", "", PacingTime(delay_between_emails)))
    /\ Returned /\ FrameGone
    /\ sinceAttempt' = Slept(PacingTime(delay_between_emails))
    /\ UNCHANGED <<probe, gap, files, dirStatus, params, error, result, idx, processed, sent,
                   missing_file, rowvars, invoice_path, message, sessionOpen, touched>>

\* line 188: the backoff sleep, then the next attempt
BackoffSleep ==
    /\ pc = "backoff"
    /\ events' = Append(events, Event("backoff", "", wait_time))
    /\ attempt' = attempt + 1
    /\ pc' = "loop"
    /\ sinceAttempt' = Slept(wait_time)
    /\ UNCHANGED <<probe, gap, files, dirStatus, params, error, result, idx, counters, rowvars,
                   ai, row_sent, invoice_path, message, wait_time, sessionOpen, callResult,
                   touched>>

(* ----------------------------- environment ---------------------------- *)
Running == pc \notin {"start", "done", "raised"}

\* the invoices directory is removed, replaced by a file, restored or has
\* its permissions changed while the run is going on
DirChange ==
    /\ Running
    /\ \E st \in DirStatuses \ {dirStatus} : dirStatus' = st
    /\ UNCHANGED <<probe, sinceAttempt, gap, files, params, pc, error, result, idx, counters, rowvars, ai, row_sent,
                   invoice_path, sendvars, events, callResult, touched>>

Next ==
    \/ Start \/ RowStart \/ Return \/ FindInvoice \/ RowEnd \/ DryRunLog \/ Render
    \/ BuildMessage \/ LoopExit \/ Connect \/ Transmit \/ PacingSleep \/ BackoffSleep
    \/ DirChange

Spec == Init /\ [][Next]_vars

\* a run over an invoices directory that nothing else touches
NextStill ==
    \/ Start \/ RowStart \/ Return \/ FindInvoice \/ RowEnd \/ DryRunLog \/ Render
    \/ BuildMessage \/ LoopExit \/ Connect \/ Transmit \/ PacingSleep \/ BackoffSleep

SpecStill == Init /\ [][NextStill]_vars

(* ---------------------- the functions on their own -------------------- *)
\* No run of process_invoices is under way: a function is called by itself.
NoRun ==
    /\ rows = << >> /\ dirStatus = "ok" /\ excel_exists = TRUE
    /\ dry_run = TRUE /\ max_retries = 1 /\ delay_between_emails = 1
    /\ subject = << >> /\ body = << >> /\ company_column_index = 0
    /\ pc = "probe" /\ error = "" /\ result = << >>
    /\ idx = 0 /\ processed = 0 /\ sent = 0 /\ skipped = 0 /\ missing_file = 0
    /\ accounts = << >> /\ recipients = << >> /\ company = None
    /\ ai = 0 /\ row_sent = 0 /\ invoice_path = NoPath
    /\ message = << >> /\ attempt = 0 /\ wait_time = 0 /\ sessionOpen = FALSE
    /\ events = << >> /\ callResult = "" /\ touched = {}
    /\ sinceAttempt = "none" /\ gap = "none"

\* find_invoice_path(account_number, invoices_dir, ext) over one directory
EntryPool ==
    { Folder(A12345 \o <<"_", "a", ".", "p", "d", "f">>),
      File(A12345 \o <<"_", "b", ".", "p", "d", "f">>),
      File(A12345 \o <<"_", "c", ".", "P", "D", "F">>),
      File(<<"x">> \o A12345 \o <<"_", "a", ".", "p", "d", "f">>),
      File(A67890 \o <<"_", "a", ".", "p", "d", "f">>),
      File(A67890 \o <<"_", "x", ".", "t", "x", "t">>) }

ExtChoices == { <<".", "p", "d", "f">>, <<".", "P", "D", "F">> }

InitMatch ==
    /\ NoRun
    /\ entries \in {d \in SUBSET EntryPool : Cardinality(d) <= MaxDirSize}
    /\ \E a \in {A12345, A67890}, e \in ExtChoices :
          probe = [account_number |-> a, ext |-> e, found |-> << >>]

Lookup ==
    /\ pc = "probe" /\ Len(probe.found) < MaxLookups
    /\ \E listing \in ListingOrders(entries) :
          LET found == find_invoice_path(probe.account_number, listing, entries,
                                         dirStatus, probe.ext)
          IN  probe' = [probe EXCEPT !.found = Append(@, found.path)]
    /\ UNCHANGED program

NextMatch == Lookup

SpecMatch == InitMatch /\ [][NextMatch]_vars

\* extract_five_digit_accounts(value) over one cell
CellChars == {"1", "2", "a", " "}

InitExtract ==
    /\ NoRun /\ entries = {}
    /\ \E chars \in SeqsUpTo(CellChars, MaxCellLen) :
          probe = [value |-> Str(chars), returned |-> FALSE, accounts |-> << >>]

Extract ==
    /\ pc = "probe" /\ ~probe.returned
    /\ probe' = [probe EXCEPT !.returned = TRUE,
                              !.accounts = extract_five_digit_accounts(probe.value)]
    /\ UNCHANGED program

NextExtract == Extract

SpecExtract == InitExtract /\ [][NextExtract]_vars

\* the rendering of lines 276-277 and 286-287 over one template
RECURSIVE Joined(_)
Joined(pieces) ==
    IF pieces = << >> THEN << >> ELSE Head(pieces) \o Joined(Tail(pieces))

Pieces ==
    { ACCOUNT, COMPANY, <<"%">>, <<"A">>,
      <<"A", "C", "C", "O", "U", "N", "T">>, <<"C", "O", "M", "P", "A", "N", "Y">> }

CompanyChoices ==
    { None, Str(<<"A">>), Str(<<"%">>), Str(ACCOUNT),
      Str(<<"A", "C", "C", "O", "U", "N", "T">>) }

InitRender ==
    /\ NoRun /\ entries = {}
    /\ \E pieces \in SeqsUpTo(Pieces, MaxPieces), c \in CompanyChoices :
          probe = [template |-> Joined(pieces), account |-> A12345, company |-> c,
                   rendered |-> FALSE, text |-> << >>]

RenderAlone ==
    /\ pc = "probe" /\ ~probe.rendered
    /\ probe' = [probe EXCEPT
          !.rendered = TRUE,
          !.text = Personalize(probe.template, probe.account, probe.company).text]
    /\ UNCHANGED program

NextRender == RenderAlone

SpecRender == InitRender /\ [][NextRender]_vars

(* ------------------------------ properties ---------------------------- *)
IsAttempt(e) == e.k = "attempt"
IsBackoff(e) == e.k = "backoff"
IsPacing(e) == e.k = "pacing"
Attempts == SelectSeq(events, IsAttempt)
Backoffs == SelectSeq(events, IsBackoff)
Pacings == SelectSeq(events, IsPacing)
AllTransient(atts) == \A i \in 1..Len(atts) : IsTransient(atts[i].out)
CallEnded == callResult # ""

\* C1: a call whose attempts all fail with a transient error makes exactly
\* max_retries attempts (max_retries >= 1), numbered 0 .. max_retries - 1,
\* and then raises the last error to its caller: while it runs it has made
\* fewer than max_retries attempts, and it never returns normally.
C1_ExactlyMaxRetriesAttempts ==
    (max_retries >= 1 /\ Attempts # << >> /\ AllTransient(Attempts)) =>
        /\ Len(Attempts) <= max_retries
        /\ \A i \in 1..Len(Attempts) : Attempts[i].n = i - 1
        /\ CallEnded <=> Len(Attempts) = max_retries
        /\ CallEnded => callResult = Attempts[Len(Attempts)].out

C1_Witness ==
    /\ max_retries = 3
    /\ Len(Attempts) = 3 /\ AllTransient(Attempts)
    /\ callResult = "SMTPException"

\* C2: a call that first succeeds on attempt k (0-based), after k transient
\* failures, has slept k backoffs and one pacing sleep when it returns; the
\* pacing sleep is the last event of the call, right after the successful
\* transmission, and the call has not returned before it.
C2_BackoffsThenOnePacing ==
    \A i \in 1..Len(events) :
        (IsAttempt(events[i]) /\ events[i].out = "ok") =>
            LET k == events[i].n
            IN  /\ k < max_retries
                /\ Len(Attempts) = k + 1
                /\ AllTransient(SubSeq(Attempts, 1, k))
                /\ Len(Backoffs) = k
                /\ IF i = Len(events)
                   THEN ~CallEnded /\ pc = "pacing"
                   ELSE /\ i + 1 = Len(events)
                        /\ IsPacing(events[i + 1])
                        /\ events[i + 1].dur = delay_between_emails
                        /\ callResult = "returned"

C2_Witness ==
    /\ callResult = "returned"
    /\ Len(Attempts) = 3 /\ Attempts[3].out = "ok" /\ Attempts[3].n = 2
    /\ Len(Backoffs) = 2 /\ Len(Pacings) = 1

\* C3: a transient failure of attempt n with n < max_retries - 1 is followed
\* by one sleep of delay_between_emails * 2^n and then by attempt n + 1; a
\* transient failure of attempt max_retries - 1 ends the call at once, with
\* no sleep; no backoff sleep occurs anywhere else.
C3_ExponentialBackoff ==
    \A i \in 1..Len(events) :
        /\ (IsAttempt(events[i]) /\ IsTransient(events[i].out)) =>
              IF events[i].n < max_retries - 1
              THEN IF i = Len(events)
                   THEN pc = "backoff" /\ ~CallEnded
                   ELSE /\ IsBackoff(events[i + 1])
                        /\ events[i + 1].dur = delay_between_emails * 2^(events[i].n)
                        /\ i + 2 <= Len(events) =>
                              /\ IsAttempt(events[i + 2])
                              /\ events[i + 2].n = events[i].n + 1
              ELSE /\ i = Len(events)
                   /\ callResult = events[i].out
        /\ IsBackoff(events[i]) =>
              /\ i > 1
              /\ IsAttempt(events[i - 1]) /\ IsTransient(events[i - 1].out)
              /\ events[i - 1].n < max_retries - 1

C3_Witness ==
    /\ delay_between_emails = 3
    /\ Len(Backoffs) = 2
    /\ Backoffs[1].dur = 3 /\ Backoffs[2].dur = 6
    /\ pc = "loop" /\ attempt = 2

\* C4: in dry-run mode no SMTP session is opened, send_email_with_attachment
\* is not called, and sent is 0 in every state and in the summary.
SendPcs == {"call", "loop", "session", "pacing", "backoff"}

C4_DryRunNeverSends ==
    dry_run =>
        /\ sent = 0 /\ row_sent = 0
        /\ ~sessionOpen
        /\ pc \notin SendPcs
        /\ touched \cap {"send", "connect"} = {}
        /\ events = << >> /\ callResult = ""
        /\ pc = "done" => result.sent = 0

C4_Witness ==
    /\ dry_run /\ pc = "done"
    /\ result.processed = 2 /\ result.missing_file = 1
    /\ "render" \in touched

\* the identifiers and recipients of a row of the sheet, as RowStart finds them
AccountsOf(row) == extract_five_digit_accounts(get_cell_value(row, account_column_index))
RecipientsOf(row) == split_emails(get_cell_value(row, emails_column_index))
ListingErrors == {"PermissionError", "NotADirectoryError"}

\* C5: once the configuration checks have passed, no error aborts the run,
\* whatever the cells of the rows hold and in both modes: the only error that
\* leaves process_invoices is the configuration error, raised before any row
\* is iterated.  (The errors of the directory listing are the subject of C7
\* and are set aside here.)
C5_OnlyConfigurationErrorsAbort ==
    (pc = "raised" /\ error \notin ListingErrors) =>
        (error = "FileNotFoundError" /\ processed = 0)

\* C6: in live mode a failure raised by send_email_with_attachment is counted
\* as one skipped and nothing else; the run is not aborted and control is at
\* the head of the identifier loop, on the next identifier of the same row.
C6_FailureStep ==
    (callResult = "" /\ callResult' \notin {"", "returned"}) =>
        /\ ~dry_run
        /\ skipped' = skipped + 1
        /\ pc' = "accts" /\ ai' = ai + 1
        /\ error' = "" /\ ~sessionOpen'
        /\ UNCHANGED <<rows, idx, accounts, recipients, company, processed, sent,
                       missing_file, row_sent>>

C6_Continues ==
    /\ (CallEnded /\ callResult # "returned") =>
          (pc = "accts" /\ error = "" /\ ai \in 2..(Len(accounts) + 1))
    /\ error \notin ConnectOutcomes \cup TransmitOutcomes

C6_SendFailureNeverAborts == []C6_Continues /\ [][C6_FailureStep]_vars

C6_Witness ==
    /\ ~dry_run /\ max_retries = 2
    /\ Len(Attempts) = 2 /\ AllTransient(Attempts)
    /\ IsTransient(callResult)
    /\ pc = "accts" /\ ai = 2 /\ Len(accounts) = 2
    /\ idx < Len(rows)
    /\ skipped = 1

\* C7: no failure to list the invoices directory during a lookup is
\* propagated: the lookup counts as no match and the run is not ended by a
\* listing error.
C7_ListingErrorIsNoMatch == error \notin ListingErrors

\* C8: for a row whose company value is missing (None or the empty cell's
\* nan), rendering an identifier that has a matching file raises nothing:
\* no TypeError ends the run, and in live mode every identifier rendered is
\* handed to send_email_with_attachment.
C8_MissingCompanyRendersEmpty ==
    company.t \in {"none", "nan"} =>
        /\ error # "TypeError"
        /\ (~dry_run /\ "render" \in touched) => (pc = "call" \/ "send" \in touched)

\* the outcomes counted by a run that iterated the first n rows completely
RECURSIVE OutcomesDue(_)
OutcomesDue(n) ==
    IF n = 0 THEN 0
    ELSE OutcomesDue(n - 1)
         + (IF RowSkipped(AccountsOf(rows[n]), RecipientsOf(rows[n])) THEN 1
            ELSE Len(AccountsOf(rows[n])))

\* C9: in live mode every identifier of every row that was iterated and had
\* identifiers and recipients added exactly one to exactly one of sent,
\* missing_file and skipped when the run is over, and processed is the
\* number of rows iterated.
C9_EveryIdentifierCountedOnce ==
    (~dry_run /\ pc \in {"done", "raised"}) =>
        sent + missing_file + skipped = OutcomesDue(processed)

\* C10: a row without identifiers, without recipients or without both adds
\* exactly one to skipped and ends there: no lookup, rendering or dispatch
\* is made for it.
C10_SkipStep ==
    (pc = "rows" /\ processed' # processed) =>
        (RowSkipped(AccountsOf(rows[idx]), RecipientsOf(rows[idx])) =>
            /\ skipped' = skipped + 1
            /\ processed' = processed + 1
            /\ pc' = "rows" /\ idx' = idx + 1
            /\ touched' = {}
            /\ UNCHANGED <<sent, missing_file, row_sent, events, callResult, sessionOpen>>)

C10_NoWorkForSkippedRow ==
    (touched # {} \/ pc \in {"accts", "found"} \cup SendPcs) =>
        (accounts # << >> /\ recipients # << >>)

C10_SkippedRowCountedOnce == []C10_NoWorkForSkippedRow /\ [][C10_SkipStep]_vars

C10_Witness ==
    /\ pc = "rows" /\ idx = 3
    /\ AccountsOf(rows[1]) # << >> /\ RecipientsOf(rows[1]) = << >>
    /\ AccountsOf(rows[2]) = << >> /\ RecipientsOf(rows[2]) = << >>
    /\ processed = 2 /\ skipped = 2
    /\ touched = {}

\* C11: processed is the number of rows whose iteration has started, in
\* every state, and the summary's processed is the number of rows of the
\* sheet, whatever the mode and the outcomes of the rows.
RowsStarted == IF pc \in {"rows", "done"} THEN idx - 1 ELSE idx

C11_ProcessedCountsRows ==
    /\ processed = RowsStarted
    /\ pc = "done" => (result.processed = Len(rows) /\ processed = Len(rows))

C11_Witness ==
    /\ pc = "done" /\ Len(rows) = 2
    /\ result.processed = 2
    /\ result.skipped >= 1 /\ result.missing_file >= 1 /\ result.sent >= 1

\* C12: every attempt opens a session of its own and the session is closed
\* on every way out of the attempt (success, transient error, other error)
\* before a backoff or pacing sleep starts and before the next attempt or
\* the next call opens one: a session is open only while its attempt
\* transmits, so at most one is open and none is used by two attempts.
C12_OpenOnlyWhileTransmitting == sessionOpen => pc = "session"

C12_SessionStep ==
    /\ (pc # "session" /\ pc' = "session") =>
          (pc = "loop" /\ ~sessionOpen /\ sessionOpen' /\ Len(Attempts) = attempt)
    /\ (pc = "session" /\ pc' # "session") =>
          (sessionOpen /\ ~sessionOpen' /\ Len(events') = Len(events) + 1)
    /\ sessionOpen' # sessionOpen => pc' # pc

C12_FreshSessionPerAttempt ==
    []C12_OpenOnlyWhileTransmitting /\ [][C12_SessionStep]_vars

C12_Witness ==
    /\ pc = "session" /\ sessionOpen /\ attempt = 1
    /\ Len(Attempts) = 1 /\ Attempts[1].out = "SMTPException"

\* C13: when the spreadsheet file or the invoices directory is absent at the
\* call, process_invoices raises before any row is processed: no counter is
\* incremented, no file is matched, nothing is sent and no summary exists.
ConfigurationAbsent == ~excel_exists \/ dirStatus \in {"missing", "notdir"}

NothingDone ==
    /\ processed = 0 /\ sent = 0 /\ skipped = 0 /\ missing_file = 0
    /\ idx = 0 /\ touched = {} /\ events = << >> /\ ~sessionOpen
    /\ result = << >>

C13_AbortedBeforeRows ==
    /\ (pc # "start" /\ ~excel_exists) => pc = "raised"
    /\ (pc = "raised" /\ error = "FileNotFoundError") => NothingDone

C13_StartStep ==
    (pc = "start" /\ pc' # "start" /\ ConfigurationAbsent) =>
        (pc' = "raised" /\ error' = "FileNotFoundError" /\ NothingDone')

C13_MissingConfigurationAborts ==
    []C13_AbortedBeforeRows /\ [][C13_StartStep]_vars

C13_Witness ==
    /\ pc = "raised" /\ error = "FileNotFoundError"
    /\ excel_exists /\ dirStatus = "notdir" /\ Len(rows) = 2

\* C14 as stated: find_invoice_path returns the first entry, in lexicographic
\* order of the names, whose name ends with ext (whatever the case) and
\* starts with "<identifier>_", none when no entry does, and the same result
\* on every call over an unchanged directory.
Least(names) ==
    IF names = {} THEN NoPath
    ELSE CHOOSE n \in names : \A o \in names \ {n} : StrLess(n, o)

NamedAlike(chosen) ==
    {e.name : e \in {c \in chosen :
        NameMatches(c.name, probe.account_number \o <<"_">>, probe.ext)}}

C14_FirstNamedEntry ==
    \A i \in DOMAIN probe.found : probe.found[i] = Least(NamedAlike(entries))

\* C14, amended: the entry returned is the first regular file with such a
\* name; an entry with such a name that is not a regular file is passed over.
RegularFiles == {e \in entries : e.isfile}

C14_FirstNamedRegularFile ==
    /\ \A i \in DOMAIN probe.found : probe.found[i] = Least(NamedAlike(RegularFiles))
    /\ \A i, j \in DOMAIN probe.found : probe.found[i] = probe.found[j]

C14_Witness ==
    /\ Len(probe.found) = MaxLookups
    /\ probe.found[1] = A12345 \o <<"_", "b", ".", "p", "d", "f">>
    /\ Folder(A12345 \o <<"_", "a", ".", "p", "d", "f">>) \in entries
    /\ File(A12345 \o <<"_", "c", ".", "P", "D", "F">>) \in entries

\* C15 as stated: for a non-empty cell, extract_five_digit_accounts returns
\* every maximal run of digits that is exactly five long and has a non-digit
\* character or an edge of the string on each side; only when there is no
\* such run does it return the chunks of five of the cell's digits.
AllChars == {Alphabet[i] : i \in DOMAIN Alphabet}
NonDigits == {c \in AllChars : ~IsDigit(c)}
NonWordChars == {c \in AllChars : ~IsWordChar(c)}

RunsOfFive(s, bounds) ==
    SeqOfSet({i \in 1..(Len(s) - 4) :
        /\ \A k \in 0..4 : IsDigit(s[i + k])
        /\ i > 1 => s[i - 1] \in bounds
        /\ i + 4 < Len(s) => s[i + 5] \in bounds})

RunsElseChunks(s, starts) ==
    IF starts # << >>
    THEN [k \in DOMAIN starts |-> SubSeq(s, starts[k], starts[k] + 4)]
    ELSE Chunks(DigitsOnly(s))

C15_RunsBoundedByNonDigits ==
    probe.returned =>
        probe.accounts = RunsElseChunks(probe.value.s, RunsOfFive(probe.value.s, NonDigits))

\* C15, amended: the runs returned are those with a character that is no
\* letter, digit or underscore, or an edge of the string, on each side.
C15_RunsBoundedByNonWordChars ==
    probe.returned =>
        probe.accounts = RunsElseChunks(probe.value.s, RunsOfFive(probe.value.s, NonWordChars))

C15_Witness ==
    /\ probe.returned
    /\ probe.value.s = <<"1", "a", "2", "2", "2", "2", "2">>
    /\ probe.accounts = << <<"1", "2", "2", "2", "2">> >>

\* C16 as stated: for every template, identifier and company string the
\* rendered text holds no %ACCOUNT% and no %COMPANY%, is the same whichever
\* placeholder is replaced first, and is the template itself when the
\* template holds neither placeholder.
Occurrences(s, sub) ==
    {i \in 1..(Len(s) - Len(sub) + 1) : SubSeq(s, i, i + Len(sub) - 1) = sub}

Contains(s, sub) == Occurrences(s, sub) # {}

CompanyFirst ==
    Replace(Replace(probe.template, COMPANY, CompanyOrEmpty(probe.company).s),
            ACCOUNT, probe.account)

NoPlaceholderLeft == ~Contains(probe.text, ACCOUNT) /\ ~Contains(probe.text, COMPANY)

UnchangedWithoutPlaceholders ==
    (~Contains(probe.template, ACCOUNT) /\ ~Contains(probe.template, COMPANY))
        => probe.text = probe.template

C16_RenderingReplacesAll ==
    probe.rendered =>
        /\ NoPlaceholderLeft
        /\ probe.text = CompanyFirst
        /\ UnchangedWithoutPlaceholders

\* C16, amended: the first two parts hold when every "%" of the template
\* lies in exactly one occurrence of a placeholder and the company string
\* has no "%"; the third part holds for every template.
PlaceholderSpans(s) ==
    {i .. (i + 8) : i \in Occurrences(s, ACCOUNT) \cup Occurrences(s, COMPANY)}

Delimited(s) ==
    \A k \in 1..Len(s) :
        s[k] = "%" => Cardinality({span \in PlaceholderSpans(s) : k \in span}) = 1

PlainCompany == ~Contains(CompanyOrEmpty(probe.company).s, <<"%">>)

C16_RenderingOfDelimitedTemplates ==
    probe.rendered =>
        /\ (Delimited(probe.template) /\ PlainCompany) =>
              (NoPlaceholderLeft /\ probe.text = CompanyFirst)
        /\ UnchangedWithoutPlaceholders

C16_Witness ==
    /\ probe.rendered /\ PlainCompany
    /\ probe.template = ACCOUNT \o COMPANY \o ACCOUNT
    /\ probe.company = Str(<<"A", "C", "C", "O", "U", "N", "T">>)
    /\ probe.text = A12345 \o <<"A", "C", "C", "O", "U", "N", "T">> \o A12345

\* C17: for every integer max_retries, zero and the negative ones included,
\* send_email_with_attachment returns normally only after an attempt of the
\* call has transmitted the message, so an identifier is counted as sent
\* only if it was transmitted.
C17_ReturnsOnlyAfterTransmission ==
    callResult = "returned" =>
        \E i \in DOMAIN Attempts : Attempts[i].out = "ok"

\* C18 as stated: in a live run any two consecutive SMTP connection attempts
\* have between them at least one blocking sleep of at least
\* delay_between_emails.
C18_SleepBetweenAttempts == gap \in {"none", "slept"}

\* C18, amended: the sleep is missing exactly when the earlier attempt's
\* error left its call (the last retry of a transient error, or any other
\* error); the later attempt is then the first of the next call.  Attempts
\* of one call, and an attempt that follows a transmitted message, have a
\* sleep of at least delay_between_emails before them.
C18_SleepUnlessCallRaised ==
    /\ gap \in {"none", "slept", "raised"}
    /\ (gap = "raised" /\ pc \in {"session", "backoff"}) => attempt = 0
    /\ (pc \in {"session", "backoff"} /\ attempt > 0) => gap = "slept"

C18_Witness ==
    /\ ~dry_run /\ pc = "session" /\ attempt = 0
    /\ gap = "slept" /\ sent + row_sent >= 1

\* C19: over the same rows and the same unchanged, listable invoices
\* directory a dry run and a live run both complete; processed is the number
\* of rows and missing_file the number of identifiers of non-skipped rows
\* without a file in both, so the two runs return equal values; the dry
\* run's skipped is the number of skipped rows, the live run's is no less.
RECURSIVE RowSkips(_)
RowSkips(n) ==
    IF n = 0 THEN 0
    ELSE RowSkips(n - 1)
         + (IF RowSkipped(AccountsOf(rows[n]), RecipientsOf(rows[n])) THEN 1 ELSE 0)

NoFileFor(account) ==
    \A e \in entries : ~(e.isfile /\ NameMatches(e.name, account \o <<"_">>, ext))

RECURSIVE MissingDue(_)
MissingDue(n) ==
    IF n = 0 THEN 0
    ELSE MissingDue(n - 1)
         + (IF RowSkipped(AccountsOf(rows[n]), RecipientsOf(rows[n])) THEN 0
            ELSE Cardinality({i \in DOMAIN AccountsOf(rows[n]) :
                                 NoFileFor(AccountsOf(rows[n])[i])}))

C19_DryRunAgreesWithLiveRun ==
    (pc \in {"done", "raised"} /\ excel_exists /\ dirStatus = "ok") =>
        /\ pc = "done"
        /\ result.processed = Len(rows)
        /\ result.missing_file = MissingDue(Len(rows))
        /\ IF dry_run THEN result.skipped = RowSkips(Len(rows))
           ELSE result.skipped >= RowSkips(Len(rows))

\* C20: when a live run returns its summary, sent + skipped + missing_file
\* is the number of skipped rows plus the number of identifiers of the rows
\* that were not skipped, hence at least processed.
RECURSIVE IdentifiersDue(_)
IdentifiersDue(n) ==
    IF n = 0 THEN 0
    ELSE IdentifiersDue(n - 1)
         + (IF RowSkipped(AccountsOf(rows[n]), RecipientsOf(rows[n])) THEN 0
            ELSE Len(AccountsOf(rows[n])))

C20_LiveSummaryAddsUp ==
    (~dry_run /\ pc = "done") =>
        /\ result.sent + result.skipped + result.missing_file
              = RowSkips(Len(rows)) + IdentifiersDue(Len(rows))
        /\ result.sent + result.skipped + result.missing_file >= result.processed

C20_Witness ==
    /\ ~dry_run /\ pc = "done"
    /\ result.processed = 2
    /\ result.sent = 1 /\ result.skipped = 1 /\ result.missing_file = 1

\* C21: an attempt's error outside the transient class (SMTPException,
\* ConnectionError, OSError) leaves send_email_with_attachment on that
\* attempt: no attempt follows it, no backoff sleep and no pacing sleep, even
\* with retries left; process_invoices counts the identifier as skipped
\* exactly once and goes on with the next one.
OtherError(out) ==
    out \in (ConnectOutcomes \cup TransmitOutcomes)
                \ {"ok", "SMTPException", "ConnectionError", "OSError"}

C21_NothingAfterOtherError ==
    /\ \A i \in DOMAIN events :
          (IsAttempt(events[i]) /\ OtherError(events[i].out)) =>
              /\ i = Len(events)
              /\ callResult = events[i].out
              /\ Pacings = << >>
              /\ Len(Backoffs) = events[i].n
    /\ OtherError(callResult) =>
          /\ pc = "accts" /\ error = "" /\ ~sessionOpen
          /\ sinceAttempt = "raised"
          /\ attempt = 0 /\ wait_time = 0

C21_OtherErrorStep ==
    (pc = "session" /\ OtherError(callResult')) =>
        /\ skipped' = skipped + 1
        /\ ai' = ai + 1
        /\ Len(events') = Len(events) + 1
        /\ UNCHANGED <<idx, processed, sent, missing_file, row_sent, rowvars, error>>

C21_OtherErrorPropagatesAtOnce ==
    []C21_NothingAfterOtherError /\ [][C21_OtherErrorStep]_vars

C21_Witness ==
    /\ callResult = "UnicodeEncodeError"
    /\ max_retries = 3 /\ Len(Attempts) = 2 /\ Attempts[1].out = "SMTPException"
    /\ skipped = 1 /\ pc = "accts"

====
